---- MODULE Spec2Model ----
(***************************************************************************)
(* Model of the geometry fix engine of main-map-qa-app                     *)
(* (backend/qa/fix_engine.py, with the upload handler of backend/main.py   *)
(* that feeds it).                                                         *)
(*                                                                         *)
(* Conventions                                                             *)
(*  - A Python str is a sequence of symbols.  A symbol is one character    *)
(*    ("-", "0".."9", the superscript digit) or a run of letters that      *)
(*    holds no separator and no digit ("dangle", "start").                 *)
(*  - A geometry is a record [geom_type, parts]; parts is a sequence of    *)
(*    coordinate sequences, a coordinate is <<x, y>> with integer x, y in  *)
(*    map units.  Python's None is the record None below, so that a slot   *)
(*    always compares with a geometry.                                     *)
(*  - A distance is kept as its square, a rational <<num, den>>; a         *)
(*    tolerance t is the rational <<num, den>> (0.5 is <<1, 2>>).          *)
(*  - A Python call that raises is an outcome [raised |-> TRUE, ...].      *)
(*  - shapely is a dependency whose version the repository does not pin;   *)
(*    where shapely 1.x and 2.x differ, the operator takes the major       *)
(*    version as a parameter and the action chooses it freely.             *)
(***************************************************************************)
EXTENDS Integers, Sequences, FiniteSets, TLC

VARIABLES
    original_geometries,   \* GeometryFixEngine.original_geometries
    current_geometries,    \* GeometryFixEngine.current_geometries
    applied_fixes,         \* GeometryFixEngine.applied_fixes
    ret,                   \* the last call served and what it returned
    fix_ok,                \* apply_fix calls that returned success since the last load
    uploads                \* the upload requests in flight: how many of each text
                           \* are suspended at each await of the handler

vars == <<original_geometries, current_geometries, applied_fixes, ret, fix_ok, uploads>>

(***************************************************************************)
(* Bounds of the model.                                                    *)
(***************************************************************************)
MaxFixes == 2          \* apply_fix calls that may succeed between two loads

MaxLines == 3          \* lines of an uploaded text drawn from the pool

MaxUploads == 2        \* upload requests in flight at the same time

(***************************************************************************)
(* Small helpers on sequences.                                             *)
(***************************************************************************)
Last(s) == s[Len(s)]

Reverse(s) == [i \in 1..Len(s) |-> s[Len(s) + 1 - i]]

IsPrefix(s, t) == Len(s) <= Len(t) /\ \A i \in 1..Len(s) : s[i] = t[i]

RECURSIVE FilterSeq(_, _)
\* the subsequence of s whose indices are in keep, in order
FilterSeq(s, keep) ==
    IF s = <<>> THEN <<>>
    ELSE LET n == Len(s)
             front == FilterSeq(SubSeq(s, 1, n - 1), keep)
         IN IF n \in keep THEN Append(front, s[n]) ELSE front

(***************************************************************************)
(* Python str operations used on a finding id (fix_engine.py:68-75).       *)
(***************************************************************************)
AsciiDigits == <<"0", "1", "2", "3", "4", "5", "6", "7", "8", "9">>

\* a character str.isdigit() accepts and int() rejects
SuperscriptTwo == "sup2"

DigitValue(c) == (CHOOSE i \in 1..10 : AsciiDigits[i] = c) - 1

IsAsciiDigit(c) == \E i \in 1..10 : AsciiDigits[i] = c

RECURSIVE split(_, _)
\* s.split(sep): the pieces of s between the occurrences of sep
split(s, sep) ==
    IF \A i \in 1..Len(s) : s[i] # sep THEN <<s>>
    ELSE LET k == CHOOSE i \in 1..Len(s) :
                      s[i] = sep /\ \A j \in 1..(i - 1) : s[j] # sep
         IN <<SubSeq(s, 1, k - 1)>> \o split(SubSeq(s, k + 1, Len(s)), sep)

\* p.isdigit(): non-empty and every character a digit character
isdigit(p) ==
    /\ Len(p) > 0
    /\ \A i \in 1..Len(p) : IsAsciiDigit(p[i]) \/ p[i] = SuperscriptTwo

RECURSIVE DecimalValue(_)
DecimalValue(p) ==
    IF p = <<>> THEN 0
    ELSE 10 * DecimalValue(SubSeq(p, 1, Len(p) - 1)) + DigitValue(Last(p))

\* int(p): the decimal value, or ValueError when p is no decimal literal
int(p) ==
    IF Len(p) > 0 /\ \A i \in 1..Len(p) : IsAsciiDigit(p[i])
    THEN [raised |-> FALSE, value |-> DecimalValue(p)]
    ELSE [raised |-> TRUE, value |-> -1]

(***************************************************************************)
(* Rationals <<num, den>> with den > 0, for squared distances.             *)
(***************************************************************************)
RatLess(a, b) == a[1] * b[2] < b[1] * a[2]

RatMin(a, b) == IF RatLess(b, a) THEN b ELSE a

\* d < t for a distance with square d2 and a tolerance t >= 0
DistBelow(d2, t) == d2[1] * t[2] * t[2] < t[1] * t[1] * d2[2]

(***************************************************************************)
(* Geometries (shapely.geometry), as far as the engine uses them.          *)
(***************************************************************************)
None == [geom_type |-> "None", parts |-> <<>>]

LineString(coords) == [geom_type |-> "LineString", parts |-> <<coords>>]

Point(c) == [geom_type |-> "Point", parts |-> <<(<<c>>)>>]

\* a polygon without holes; the ring is closed (first = last)
Polygon(ring) == [geom_type |-> "Polygon", parts |-> <<ring>>]

EmptyPolygon == [geom_type |-> "Polygon", parts |-> <<>>]

EmptyCollection == [geom_type |-> "GeometryCollection", parts |-> <<>>]

is_empty(g) == g.parts = <<>>

\* g.wkt: the type tag in capitals, then EMPTY or the coordinate lists
wkt(g) ==
    [tag  |-> CASE g.geom_type = "LineString" -> "LINESTRING"
                [] g.geom_type = "Point" -> "POINT"
                [] g.geom_type = "Polygon" -> "POLYGON"
                [] g.geom_type = "MultiLineString" -> "MULTILINESTRING"
                [] OTHER -> "GEOMETRYCOLLECTION",
     body |-> IF is_empty(g) THEN <<"EMPTY">> ELSE g.parts]

\* the segments of a geometry; a single coordinate is a segment of length 0
Segments(g) ==
    UNION { IF Len(g.parts[k]) = 1
            THEN { <<g.parts[k][1], g.parts[k][1]>> }
            ELSE { <<g.parts[k][i], g.parts[k][i + 1]>> :
                       i \in 1..(Len(g.parts[k]) - 1) }
            : k \in 1..Len(g.parts) }

Vertices(g) == UNION { { g.parts[k][i] : i \in 1..Len(g.parts[k]) } : k \in 1..Len(g.parts) }

SqDist(p, q) == (p[1] - q[1]) * (p[1] - q[1]) + (p[2] - q[2]) * (p[2] - q[2])

Cross(o, a, b) == (a[1] - o[1]) * (b[2] - o[2]) - (a[2] - o[2]) * (b[1] - o[1])

Dot(o, a, b) == (a[1] - o[1]) * (b[1] - o[1]) + (a[2] - o[2]) * (b[2] - o[2])

\* squared distance from point p to segment <<a, b>>
SqDistPointSeg(p, s) ==
    LET a == s[1]
        b == s[2]
        l2 == SqDist(a, b)
        t == Dot(a, p, b)
    IN IF l2 = 0 \/ t <= 0 THEN <<SqDist(p, a), 1>>
       ELSE IF t >= l2 THEN <<SqDist(p, b), 1>>
       ELSE <<Cross(a, b, p) * Cross(a, b, p), l2>>

Sign(x) == IF x > 0 THEN 1 ELSE IF x < 0 THEN -1 ELSE 0

\* two segments share a point
SegsMeet(s, u) ==
    \/ SqDistPointSeg(s[1], u)[1] = 0
    \/ SqDistPointSeg(s[2], u)[1] = 0
    \/ SqDistPointSeg(u[1], s)[1] = 0
    \/ SqDistPointSeg(u[2], s)[1] = 0
    \/ /\ Sign(Cross(s[1], s[2], u[1])) * Sign(Cross(s[1], s[2], u[2])) < 0
       /\ Sign(Cross(u[1], u[2], s[1])) * Sign(Cross(u[1], u[2], s[2])) < 0

SqDistSegSeg(s, u) ==
    IF SegsMeet(s, u) THEN <<0, 1>>
    ELSE RatMin(RatMin(SqDistPointSeg(s[1], u), SqDistPointSeg(s[2], u)),
                RatMin(SqDistPointSeg(u[1], s), SqDistPointSeg(u[2], s)))

\* p lies strictly inside the ring of polygon g (crossing number, ray to +x)
InsidePolygon(p, g) ==
    /\ g.geom_type = "Polygon"
    /\ ~is_empty(g)
    /\ \A s \in Segments(g) : SqDistPointSeg(p, s)[1] # 0
    /\ Cardinality({ s \in Segments(g) :
           /\ (s[1][2] > p[2]) # (s[2][2] > p[2])
           /\ LET up == IF s[2][2] > s[1][2] THEN s ELSE <<s[2], s[1]>>
              IN Cross(up[1], up[2], p) > 0 }) % 2 = 1

\* the squared distances between the segments of g and of h
PairDists(g, h) == { SqDistSegSeg(s, u) : s \in Segments(g), u \in Segments(h) }

\* g.distance(h) of two non-empty geometries, squared
SqDistance(g, h) ==
    IF \/ \E p \in Vertices(g) : InsidePolygon(p, h)
       \/ \E p \in Vertices(h) : InsidePolygon(p, g)
    THEN <<0, 1>>
    ELSE CHOOSE d \in PairDists(g, h) : \A e \in PairDists(g, h) : ~RatLess(e, d)

(***************************************************************************)
(* The uploaded text.  A line is a sequence of tokens; the token " " is    *)
(* white space, every other token is a run of characters without a line    *)
(* break.                                                                  *)
(***************************************************************************)
LineA == LineString(<< <<0, 0>>, <<4, 0>> >>)

LineB == LineString(<< <<4, 0>>, <<4, 3>> >>)

LineU == LineString(<< <<0, 5>>, <<1, 5>>, <<2, 5>>, <<2, 7>>, <<0, 7>> >>)

PointP == Point(<<9, 9>>)

Triangle == Polygon(<< <<6, 0>>, <<8, 0>>, <<8, 2>>, <<6, 0>> >>)

\* what shapely.wkt.loads reads from a text (its tokens, white space dropped);
\* any other text is a parse error
WktTexts ==
    { << <<"LINESTRING(0 0, 4 0)">>, LineA >>,
      << <<"LINESTRING(0 0,", "4 0)">>, LineA >>,
      << <<"LINESTRING(4 0, 4 3)">>, LineB >>,
      << <<"LINESTRING(0 5, 1 5, 2 5, 2 7, 0 7)">>, LineU >>,
      << <<"LINESTRING(2 0, 2 3)">>, LineString(<< <<2, 0>>, <<2, 3>> >>) >>,
      << <<"LINESTRING(0 0, 1 0)">>, LineString(<< <<0, 0>>, <<1, 0>> >>) >>,
      << <<"LINESTRING(6 5, 6 7)">>, LineString(<< <<6, 5>>, <<6, 7>> >>) >>,
      << <<"LINESTRING(0 5, 2 5, 2 7, 0 7, 0 5)">>,
         LineString(<< <<0, 5>>, <<2, 5>>, <<2, 7>>, <<0, 7>>, <<0, 5>> >>) >>,
      << <<"LINESTRING(0 0, 10 0)">>, LineString(<< <<0, 0>>, <<10, 0>> >>) >>,
      << <<"LINESTRING(20 0, 30 0)">>, LineString(<< <<20, 0>>, <<30, 0>> >>) >>,
      << <<"LINESTRING(10 0, 10 10)">>, LineString(<< <<10, 0>>, <<10, 10>> >>) >>,
      << <<"LINESTRING(0 0, 5 0)">>, LineString(<< <<0, 0>>, <<5, 0>> >>) >>,
      << <<"MULTILINESTRING((0 5, 2 5, 2 7, 0 7, 0 5), (6 5, 6 7))">>,
         [geom_type |-> "MultiLineString",
          parts |-> << << <<0, 5>>, <<2, 5>>, <<2, 7>>, <<0, 7>>, <<0, 5>> >>,
                       << <<6, 5>>, <<6, 7>> >> >>] >>,
      << <<"POINT(9 9)">>, PointP >>,
      << <<"POLYGON((6 0, 8 0, 8 2, 6 0))">>, Triangle >>,
      << <<"GEOMETRYCOLLECTION(POINT EMPTY)">>, EmptyCollection >> }

\* tokens whose last character is ")"
ClosingTokens ==
    { "LINESTRING(0 0, 4 0)", "4 0)", "LINESTRING(4 0, 4 3)",
      "LINESTRING(0 5, 1 5, 2 5, 2 7, 0 7)", "POINT(9 9)",
      "POLYGON((6 0, 8 0, 8 2, 6 0))", "GEOMETRYCOLLECTION(POINT EMPTY)",
      "LINESTRING(0 0, oops)", "LINESTRING(2 0, 2 3)", "LINESTRING(0 0, 1 0)",
      "LINESTRING(6 5, 6 7)", "LINESTRING(0 5, 2 5, 2 7, 0 7, 0 5)",
      "LINESTRING(0 0, 10 0)", "LINESTRING(20 0, 30 0)", "LINESTRING(10 0, 10 10)",
      "MULTILINESTRING((0 5, 2 5, 2 7, 0 7, 0 5), (6 5, 6 7))", "LINESTRING(0 0, 5 0)" }

RECURSIVE DropSpaces(_)
DropSpaces(t) ==
    IF t = <<>> THEN <<>>
    ELSE IF t[1] = " " THEN DropSpaces(Tail(t))
    ELSE <<t[1]>> \o DropSpaces(Tail(t))

\* line_str.strip(): leading and trailing white space removed
strip(line) ==
    IF \A i \in 1..Len(line) : line[i] = " " THEN <<>>
    ELSE LET lo == CHOOSE i \in 1..Len(line) :
                       line[i] # " " /\ \A j \in 1..(i - 1) : line[j] = " "
             hi == CHOOSE i \in 1..Len(line) :
                       line[i] # " " /\ \A j \in (i + 1)..Len(line) : line[j] = " "
         IN SubSeq(line, lo, hi)

\* stripped.endswith(")") for a non-empty stripped line
endswith_paren(stripped) == Last(stripped) \in ClosingTokens

\* shapely.wkt.loads(text): the geometry, or a raised parse error
loads(text) ==
    LET t == DropSpaces(text)
    IN IF \E e \in WktTexts : e[1] = t
       THEN [raised |-> FALSE, geom |-> (CHOOSE e \in WktTexts : e[1] = t)[2]]
       ELSE [raised |-> TRUE, geom |-> None]

\* "if geom and not geom.is_empty": a geometry is true when it is not empty
truthy(g) == g # None /\ ~is_empty(g)

(***************************************************************************)
(* GeometryFixEngine: the fields of self.                                  *)
(***************************************************************************)
Self ==
    [original_geometries |-> original_geometries,
     current_geometries  |-> current_geometries,
     applied_fixes       |-> applied_fixes]

\* copy.deepcopy of the list of geometries: a new list with equal elements,
\* sharing no slot with the list copied
DeepcopyPending(geoms) == <<>>

deepcopy(geoms) == geoms

\* one pass of the loop of load_wkt_content over a line: st = [geoms, buf]
LoadLine(st, line_str) ==
    LET stripped == strip(line_str)
        buf == st.buf \o stripped \o <<" ">>
        clean_wkt == Last(split(buf, ";"))
        parsed == loads(clean_wkt)
    IN IF stripped = <<>> THEN st
       ELSE IF ~endswith_paren(stripped) THEN [st EXCEPT !.buf = buf]
       ELSE [geoms |-> IF parsed.raised THEN Append(st.geoms, None)
                       ELSE IF truthy(parsed.geom) THEN Append(st.geoms, parsed.geom)
                       ELSE st.geoms,
             buf   |-> <<>>]

RECURSIVE LoadLines(_, _)
LoadLines(st, raw_lines) ==
    IF raw_lines = <<>> THEN st
    ELSE LoadLines(LoadLine(st, raw_lines[1]), Tail(raw_lines))

\* line 23: self.applied_fixes = []
LoadedFixesKept(self) == self.applied_fixes

LoadedFixes(self) == <<>>

\* load_wkt_content(self, wkt_content): the fields of self afterwards and the
\* count returned; wkt_content is the sequence of its lines (splitlines)
load_wkt_content(self, wkt_content) ==
    LET geoms == LoadLines([geoms |-> <<>>, buf |-> <<>>], wkt_content).geoms
        after == [original_geometries |-> geoms,
                  current_geometries  |-> deepcopy(geoms),
                  applied_fixes       |-> LoadedFixes(self)]
    IN [self |-> after, count |-> Len(after.current_geometries)]

\* get_geometry(self, index), index counted from 0 as in the code
get_geometry(self, index) ==
    IF 0 <= index /\ index < Len(self.current_geometries)
    THEN self.current_geometries[index + 1]
    ELSE None

(***************************************************************************)
(* The shapely operations the fixes call.                                  *)
(***************************************************************************)
Abs(x) == IF x < 0 THEN -x ELSE x

Max(a, b) == IF a > b THEN a ELSE b

\* the length of a segment; every segment of the model is parallel to an axis
SegLen(a, b) == Abs(a[1] - b[1]) + Abs(a[2] - b[2])

RECURSIVE CoordsLength(_)
CoordsLength(coords) ==
    IF Len(coords) < 2 THEN 0
    ELSE SegLen(coords[1], coords[2]) + CoordsLength(Tail(coords))

RECURSIVE PartsLength(_)
PartsLength(parts) ==
    IF parts = <<>> THEN 0 ELSE CoordsLength(parts[1]) + PartsLength(Tail(parts))

\* geom.length: the sum of the lengths of the parts
length(g) == PartsLength(g.parts)

RECURSIVE InterpolateCoords(_, _)
\* the point at arc length d along coords, clamped to the two ends
InterpolateCoords(coords, d) ==
    IF Len(coords) = 1 \/ d <= 0 THEN coords[1]
    ELSE LET a == coords[1]
             b == coords[2]
             l == SegLen(a, b)
         IN IF d < l
            THEN << a[1] + Sign(b[1] - a[1]) * d, a[2] + Sign(b[2] - a[2]) * d >>
            ELSE InterpolateCoords(Tail(coords), d - l)

\* geom.interpolate(d) of a LineString, as the coordinate of the point
interpolate(g, d) == InterpolateCoords(g.parts[1], d)

\* d <= t for a distance with square d2 and a tolerance t >= 0
DistWithin(d2, t) == d2[1] * t[2] * t[2] <= t[1] * t[1] * d2[2]

RECURSIVE DouglasPeucker(_, _)
\* the vertices kept by line simplification with tolerance tol
DouglasPeucker(coords, tol) ==
    IF Len(coords) <= 2 THEN coords
    ELSE LET n == Len(coords)
             chord == <<coords[1], coords[n]>>
             far == CHOOSE k \in 2..(n - 1) : \A j \in 2..(n - 1) :
                        ~RatLess(SqDistPointSeg(coords[k], chord),
                                 SqDistPointSeg(coords[j], chord))
         IN IF DistWithin(SqDistPointSeg(coords[far], chord), tol)
            THEN <<coords[1], coords[n]>>
            ELSE DouglasPeucker(SubSeq(coords, 1, far), tol)
                 \o Tail(DouglasPeucker(SubSeq(coords, far, n), tol))

\* geom.simplify(tolerance, preserve_topology=True): a line keeps its two ends,
\* a ring keeps at least four coordinates, a point is left alone
simplify(g, tol) ==
    IF is_empty(g) THEN g
    ELSE IF g.geom_type = "LineString"
    THEN LineString(DouglasPeucker(g.parts[1], tol))
    ELSE IF g.geom_type = "Polygon"
    THEN LET ring == DouglasPeucker(g.parts[1], tol)
         IN IF Len(ring) >= 4 THEN Polygon(ring) ELSE g
    ELSE g

\* geom.buffer(0): the area of the geometry; a line or a point has none
buffer0(g) ==
    IF g.geom_type = "Polygon" /\ ~is_empty(g) THEN g ELSE EmptyPolygon

\* make_valid(geom): a valid geometry is returned as it is; every geometry
\* of the model is valid
make_valid(g) == g

\* the coordinate of ref nearest to c among those closer than tol, else c
SnapCoord(c, ref, tol) ==
    LET near == { v \in Vertices(ref) : DistBelow(<<SqDist(c, v), 1>>, tol) }
    IN IF near = {} THEN c
       ELSE CHOOSE v \in near : \A w \in near : SqDist(c, v) <= SqDist(c, w)

\* shapely.ops.snap(g, ref, tol): the vertices of g within tol of a vertex of
\* ref are moved onto it
snap(g, ref, tol) ==
    [g EXCEPT !.parts = [k \in 1..Len(g.parts) |->
                            [i \in 1..Len(g.parts[k]) |-> SnapCoord(g.parts[k][i], ref, tol)]]]

(***************************************************************************)
(* apply_fix (fix_engine.py:61-222).                                       *)
(***************************************************************************)
\* the values of float tolerance / interval parameters: rationals <<num, den>>
DefaultTolerance == <<1, 2>>

DefaultInterval == <<1, 1>>

\* params is the set of its <<key, value>> pairs; None and {} are the empty set
NoParams == {}

\* params.get(key, default) if params else default
ParamGet(params, key, default) ==
    IF \E e \in params : e[1] = key
    THEN (CHOOSE e \in params : e[1] = key)[2]
    ELSE default

Message(text, arg) == [text |-> text, arg |-> arg]

\* what a call of apply_fix gives its caller: kind is "dict" for a returned
\* dict with its success and message, "raised" for an error that leaves the
\* call, "None" for a call that falls off its end
Result(kind, success, message) ==
    [kind |-> kind, success |-> success, message |-> message]

\* lines 78, 108, 208: return {"success": False, "message": ...}
FailureForgetsFixes(self, text, arg) ==
    [self |-> [self EXCEPT !.applied_fixes = <<>>],
     ret |-> Result("dict", FALSE, Message(text, arg))]

Failure(self, text, arg) ==
    [self |-> self, ret |-> Result("dict", FALSE, Message(text, arg))]

\* lines 221-222: except Exception as e: return {"success": False, "message": str(e)}
ExceptMissing(self, text) ==
    [self |-> self, ret |-> Result("raised", FALSE, Message(text, <<>>))]

Except(self, text) ==
    [self |-> self, ret |-> Result("dict", FALSE, Message(text, <<>>))]

\* fix_type.upper() of the names a request may carry
upper(fix_type) ==
    CASE fix_type = "delete" -> "DELETE"
      [] fix_type = "Close" -> "CLOSE"
      [] OTHER -> fix_type

\* lines 68-75: the first token of error_id that isdigit() accepts, through int()
ResolveIndexLast(error_id) ==
    LET parts == split(error_id, "-")
        digits == { k \in 1..Len(parts) : isdigit(parts[k]) }
    IN IF digits = {} THEN [raised |-> FALSE, value |-> -1]
       ELSE int(parts[CHOOSE k \in digits : \A j \in digits : j <= k])

ResolveIndex(error_id) ==
    LET parts == split(error_id, "-")
        digits == { k \in 1..Len(parts) : isdigit(parts[k]) }
    IN IF digits = {} THEN [raised |-> FALSE, value |-> -1]
       ELSE int(parts[CHOOSE k \in digits : \A j \in digits : k <= j])

\* line 77: the index is refused
InvalidIndexOffByOne(idx, n) == idx = -1 \/ idx > n

InvalidIndex(idx, n) == idx = -1 \/ idx >= n

\* self.current_geometries[idx] = g
StoreSlotBoth(self, idx, g) ==
    [self EXCEPT !.current_geometries[idx + 1] = g,
                 !.original_geometries[idx + 1] = g]

StoreSlot(self, idx, g) == [self EXCEPT !.current_geometries[idx + 1] = g]

\* line 115: self.current_geometries[idx] = None
TombstoneByRemoval(self, idx) ==
    [self EXCEPT !.current_geometries =
        SubSeq(@, 1, idx) \o SubSeq(@, idx + 2, Len(@))]

Tombstone(self, idx) == StoreSlot(self, idx, None)

\* lines 212-218: self.applied_fixes.append({...})
LogFixPrepend(self, record) ==
    [self EXCEPT !.applied_fixes = <<record>> \o @]

LogFixForgotten(self, record) == self

LogFix(self, record) == [self EXCEPT !.applied_fixes = Append(@, record)]

\* geom.distance(other) as the loop of SNAP sees it: the squared distance, or
\* nan (no comparison with it is true), or a raised error.  With another slot
\* that is None shapely 1 raises (ValueError) and shapely 2 returns nan; with an empty
\* operand shapely 1 returns 0.0 and shapely 2 returns nan.
distance(g, other, shapely) ==
    IF other = None
    THEN IF shapely = 1
         THEN [raised |-> TRUE, nan |-> FALSE, d2 |-> <<0, 1>>]
         ELSE [raised |-> FALSE, nan |-> TRUE, d2 |-> <<0, 1>>]
    ELSE IF is_empty(g) \/ is_empty(other)
    THEN [raised |-> FALSE, nan |-> (shapely = 2), d2 |-> <<0, 1>>]
    ELSE [raised |-> FALSE, nan |-> FALSE, d2 |-> SqDistance(g, other)]

Infinity == <<1, 0>>

RECURSIVE SnapScan(_, _, _, _, _, _)
\* lines 91-100: the loop over the slots from position i on (1-based);
\* acc = [best, min_dist] so far, best = 0 while best_snap is None
SnapScan(geoms, idx, tolerance, shapely, i, acc) ==
    IF i > Len(geoms) THEN [raised |-> FALSE, best |-> acc.best, min_dist |-> acc.min_dist]
    ELSE IF i = idx + 1 THEN SnapScan(geoms, idx, tolerance, shapely, i + 1, acc)
    ELSE LET dist == distance(geoms[idx + 1], geoms[i], shapely)
             closer == /\ ~dist.nan
                       /\ RatLess(dist.d2, acc.min_dist)
                       /\ DistBelow(dist.d2, tolerance)
         IN IF dist.raised THEN [raised |-> TRUE, best |-> 0, min_dist |-> Infinity]
            ELSE SnapScan(geoms, idx, tolerance, shapely, i + 1,
                          IF closer THEN [best |-> i, min_dist |-> dist.d2] ELSE acc)

\* lines 153-156: coords.append(coords[0]); closed_ring = LineString(coords)
closed_ring_doubled(coords) == LineString(Append(coords, Last(coords)))

closed_ring(coords) == LineString(Append(coords, coords[1]))

\* the slot a fix leaves at idx and the result string, or a failure (returned,
\* or raised inside the try), for a live target geom; fix is the upper-cased
\* fix type
Transform(self, idx, geom, fix, params, shapely) ==
    LET geoms == self.current_geometries
        keep(text) == [failed |-> FALSE, raised |-> FALSE, store |-> FALSE,
                       geom |-> geom, result |-> Message(text, <<>>)]
        put(g, text, arg) == [failed |-> FALSE, raised |-> FALSE, store |-> TRUE,
                              geom |-> g, result |-> Message(text, arg)]
        fail(text) == [failed |-> TRUE, raised |-> FALSE, store |-> FALSE,
                       geom |-> geom, result |-> Message(text, <<>>)]
        raise(text) == [failed |-> TRUE, raised |-> TRUE, store |-> FALSE,
                        geom |-> geom, result |-> Message(text, <<>>)]
    IN CASE fix = "SNAP" ->
              LET tolerance == ParamGet(params, "tolerance", DefaultTolerance)
                  scan == SnapScan(geoms, idx, tolerance, shapely, 1,
                                   [best |-> 0, min_dist |-> Infinity])
              IN IF scan.raised THEN raise("Null geometry supports no operations")
                 ELSE IF scan.best # 0 /\ truthy(geoms[scan.best])
                 THEN put(snap(geom, geoms[scan.best], tolerance),
                          "Snapped to nearest geometry (dist)", scan.min_dist)
                 ELSE fail("No geometry found within snap tolerance")
         [] fix = "SIMPLIFY" ->
              LET tolerance == ParamGet(params, "tolerance", DefaultTolerance)
              IN put(simplify(geom, tolerance), "Simplified geometry (tolerance)", tolerance)
         [] fix = "BUFFER" ->
              put(buffer0(geom), "Applied buffer(0) to fix self-intersection", <<>>)
         [] fix = "MAKE_VALID" ->
              put(make_valid(geom), "Applied make_valid() to repair geometry", <<>>)
         [] fix = "CLOSE" ->
              IF geom.geom_type \in {"Polygon", "LinearRing"}
              THEN keep("Ring already closed")
              ELSE IF geom.geom_type = "LineString"
              THEN LET coords == geom.parts[1]
                   IN IF coords[1] # Last(coords)
                      THEN put(closed_ring(coords),
                               "Closed the ring by connecting end to start", <<>>)
                      ELSE keep("Ring already closed")
              ELSE keep("Close not applicable to this geometry type")
         [] fix = "REVERSE" ->
              IF geom.geom_type = "Polygon"
              THEN IF is_empty(geom)
                   THEN IF shapely = 1 THEN raise("empty ring")
                        ELSE put(EmptyPolygon, "Reversed winding order", <<>>)
                   ELSE put(Polygon(Reverse(geom.parts[1])), "Reversed winding order", <<>>)
              ELSE IF geom.geom_type = "LineString"
              THEN put(LineString(Reverse(geom.parts[1])), "Reversed coordinate order", <<>>)
              ELSE keep("Reverse not applicable")
         [] fix = "DENSIFY" ->
              IF geom.geom_type = "LineString"
              THEN LET interval == ParamGet(params, "interval", DefaultInterval)
                   IN IF interval[1] = 0 THEN raise("float division by zero")
                      ELSE LET step == interval[1] \div interval[2]
                               num_points == Max((length(geom) * interval[2]) \div interval[1], 2)
                               points == [i \in 1..(num_points + 1) |->
                                             interpolate(geom, (i - 1) * step)]
                           IN put(LineString(points), "Densified with n points", <<num_points>>)
              ELSE keep("Densify not applicable to this geometry type")
         [] fix = "OTHER" -> keep("Marked as reviewed (no auto-fix available)")

FixTypes == {"SNAP", "DELETE", "SIMPLIFY", "BUFFER", "MAKE_VALID", "CLOSE",
             "REVERSE", "DENSIFY", "OTHER"}

\* apply_fix(self, error_id, fix_type, params): the fields of self afterwards
\* and the dict returned
apply_fix(self, error_id, fix_type, params, shapely) ==
    LET resolved == ResolveIndex(error_id)
        idx == resolved.value
        n == Len(self.current_geometries)
        geom == self.current_geometries[idx + 1]
        fix == upper(fix_type)
        \* lines 211-219: "if fix_result:" logs and returns; an empty result
        \* string would leave the function without a return
        done(after, result) ==
            IF result.text = ""
            THEN [self |-> after, ret |-> Result("None", FALSE, result)]
            ELSE [self |-> LogFix(after, [error_id  |-> error_id,
                                          fix_type  |-> fix_type,
                                          original  |-> wkt(geom),
                                          result    |-> result,
                                          timestamp |-> "now"]),
                  ret  |-> Result("dict", TRUE, result)]
    IN IF resolved.raised
       THEN Except(self, "invalid literal for int() with base 10")
       ELSE IF InvalidIndex(idx, n)
       THEN Failure(self, "Invalid geometry index", <<idx>>)
       ELSE IF idx >= n
       THEN Except(self, "list index out of range")
       ELSE IF geom = None
       THEN Except(self, "'NoneType' object has no attribute 'wkt'")
       ELSE IF fix = "DELETE"
       THEN done(Tombstone(self, idx), Message("Deleted geometry", <<>>))
       ELSE IF fix \notin FixTypes
       THEN Failure(self, "Unknown fix type", <<>>)
       ELSE LET t == Transform(self, idx, geom, fix, params, shapely)
            IN IF t.failed
               THEN IF t.raised THEN Except(self, t.result.text)
                    ELSE Failure(self, t.result.text, <<>>)
               ELSE done(IF t.store THEN StoreSlot(self, idx, t.geom) ELSE self, t.result)

(***************************************************************************)
(* Export (fix_engine.py:224-250).                                         *)
(***************************************************************************)
\* line 226: the slots that are neither None nor empty, in index order
valid_geoms(self) ==
    FilterSeq(self.current_geometries,
              { i \in 1..Len(self.current_geometries) :
                    /\ self.current_geometries[i] # None
                    /\ ~is_empty(self.current_geometries[i]) })

\* MultiLineString(geoms): built from lines only, anything else raises
MultiLineString(geoms) ==
    IF \A i \in 1..Len(geoms) : geoms[i].geom_type = "LineString"
    THEN [raised |-> FALSE,
          geom |-> [geom_type |-> "MultiLineString",
                    parts |-> [i \in 1..Len(geoms) |-> geoms[i].parts[1]]]]
    ELSE [raised |-> TRUE, geom |-> None]

EmptyText == [tag |-> "", body |-> <<>>]

\* export_fixed_wkt(self): the text returned, or the error raised
export_fixed_wkt(self) ==
    LET valid == valid_geoms(self)
    IN IF valid = <<>> THEN [op |-> "export_fixed_wkt", raised |-> FALSE, text |-> EmptyText]
       ELSE IF Len(valid) = 1
       THEN [op |-> "export_fixed_wkt", raised |-> FALSE, text |-> wkt(valid[1])]
       ELSE LET collection == MultiLineString(valid)
            IN [op |-> "export_fixed_wkt", raised |-> collection.raised,
                text |-> IF collection.raised THEN EmptyText ELSE wkt(collection.geom)]

\* export_report(self): the two totals and one block per fix in the log
export_report_live(self) ==
    [op |-> "export_report",
     total_objects |-> Len(valid_geoms(self)),
     total_fixes   |-> Len(self.applied_fixes),
     blocks |-> [i \in 1..Len(self.applied_fixes) |->
                    [number   |-> i,
                     error_id |-> self.applied_fixes[i].error_id,
                     type     |-> self.applied_fixes[i].fix_type,
                     action   |-> self.applied_fixes[i].result]]]

export_report(self) ==
    [op |-> "export_report",
     total_objects |-> Len(self.original_geometries),
     total_fixes   |-> Len(self.applied_fixes),
     blocks |-> [i \in 1..Len(self.applied_fixes) |->
                    [number   |-> i,
                     error_id |-> self.applied_fixes[i].error_id,
                     type     |-> self.applied_fixes[i].fix_type,
                     action   |-> self.applied_fixes[i].result]]]

(***************************************************************************)
(* The parse of run_geometry_qa (geometry_qa.py:472-501).                  *)
(***************************************************************************)
\* one pass of the loop over line i (0-based): st = [lines_data, buf, start]
QaLine(st, line_str, i) ==
    LET stripped == strip(line_str)
        start == IF st.buf = <<>> THEN i + 1 ELSE st.start
        buf == st.buf \o stripped \o <<" ">>
        parsed == loads(Last(split(buf, ";")))
    IN IF stripped = <<>> THEN st
       ELSE IF ~endswith_paren(stripped) THEN [st EXCEPT !.buf = buf, !.start = start]
       ELSE [lines_data |-> IF ~parsed.raised /\ truthy(parsed.geom)
                            THEN Append(st.lines_data,
                                        [geom    |-> parsed.geom,
                                         id      |-> Len(st.lines_data),
                                         line_no |-> start])
                            ELSE st.lines_data,
             buf   |-> <<>>,
             start |-> start]

RECURSIVE QaLines(_, _, _)
QaLines(st, raw_lines, i) ==
    IF i >= Len(raw_lines) THEN st
    ELSE QaLines(QaLine(st, raw_lines[i + 1], i), raw_lines, i + 1)

\* lines_data of run_geometry_qa for the uploaded text
lines_data_of(text) ==
    QaLines([lines_data |-> <<>>, buf |-> <<>>, start |-> 0], text, 0).lines_data

(***************************************************************************)
(* The checks of run_geometry_qa (geometry_qa.py:349-462, 503-532).        *)
(***************************************************************************)
\* TOLERANCE = 0.5 and MIN_LINE_LENGTH = 2.0, as rationals
TOLERANCE == <<1, 2>>

MIN_LINE_LENGTH == <<2, 1>>

RECURSIVE str(_)
\* str(n) of an integer n >= 0: its decimal digits
str(n) == IF n < 10 THEN <<AsciiDigits[n + 1]>>
          ELSE str(n \div 10) \o <<AsciiDigits[(n % 10) + 1]>>

\* a line's coordinates cross or touch themselves nowhere but at the closing
\* point of a closed line
is_simple(coords) ==
    LET n == Len(coords)
        seg(i) == <<coords[i], coords[i + 1]>>
        closed == coords[1] = coords[n]
    IN \A i \in 1..(n - 1) : \A j \in (i + 1)..(n - 1) :
           IF j = i + 1
           THEN SqDistPointSeg(coords[j + 1], seg(i))[1] # 0
           ELSE IF closed /\ i = 1 /\ j = n - 1
           THEN /\ SqDistPointSeg(coords[2], seg(j))[1] # 0
                /\ SqDistPointSeg(coords[n - 1], seg(1))[1] # 0
           ELSE ~SegsMeet(seg(i), seg(j))

\* geom.is_ring of a LineString: closed and simple
is_ring(g) ==
    /\ ~is_empty(g)
    /\ Len(g.parts[1]) >= 4
    /\ g.parts[1][1] = Last(g.parts[1])
    /\ is_simple(g.parts[1])

\* g.is_valid: a line has two different points, a polygon a simple closed ring
is_valid(g) ==
    CASE g.geom_type = "LineString" -> is_empty(g) \/ Cardinality(Vertices(g)) >= 2
      [] g.geom_type = "Polygon" ->
             is_empty(g) \/ (/\ Len(g.parts[1]) >= 4
                             /\ g.parts[1][1] = Last(g.parts[1])
                             /\ is_simple(g.parts[1]))
      [] OTHER -> TRUE

\* lines 372-376: the line parts of a record, as LineStrings
geoms_list(geom) ==
    IF geom.geom_type = "LineString" THEN <<geom>>
    ELSE IF geom.geom_type = "MultiLineString"
    THEN [k \in 1..Len(geom.parts) |-> LineString(geom.parts[k])]
    ELSE <<>>

RECURSIVE PartEndpoints(_, _)
\* lines 378-397: the start and the end of every part of at least two coordinates
PartEndpoints(item, parts) ==
    IF parts = <<>> THEN <<>>
    ELSE LET coords == parts[1].parts[1]
             ep(loc, coord) == [coord |-> coord, line_idx |-> item.id,
                                line_no |-> item.line_no, loc |-> loc, pt |-> Point(coord)]
         IN (IF Len(coords) < 2 THEN <<>>
             ELSE << ep("start", coords[1]), ep("end", Last(coords)) >>)
            \o PartEndpoints(item, Tail(parts))

RECURSIVE Endpoints(_)
\* lines 360-397: the endpoints of all the records, in order
Endpoints(lines_data) ==
    IF lines_data = <<>> THEN <<>>
    ELSE LET item == lines_data[1]
         IN (IF item.geom = None \/ is_empty(item.geom) THEN <<>>
             ELSE PartEndpoints(item, geoms_list(item.geom)))
            \o Endpoints(Tail(lines_data))

\* lines 403-421: some other record lies within the tolerance of the endpoint
is_connected_ends(ep, lines_data, tolerance) ==
    \E k \in 1..Len(lines_data) :
        /\ lines_data[k].id # ep.line_idx
        /\ truthy(lines_data[k].geom)
        /\ \E v \in Vertices(lines_data[k].geom) :
               DistWithin(<<SqDist(ep.coord, v), 1>>, tolerance)

is_connected(ep, lines_data, tolerance) ==
    \E k \in 1..Len(lines_data) :
        /\ lines_data[k].id # ep.line_idx
        /\ lines_data[k].geom # None
        /\ ~is_empty(lines_data[k].geom)
        /\ DistWithin(SqDistance(ep.pt, lines_data[k].geom), tolerance)

\* lines 431-441: the finding of an unconnected endpoint
DangleError(ep) ==
    [error_point    |-> ep.coord,
     geometry_index |-> ep.line_idx,
     id             |-> <<"dangle", "-">> \o str(ep.line_no) \o <<"-", ep.loc>>,
     line_number    |-> ep.line_no,
     severity       |-> "HIGH",
     type           |-> "Dangle (Unconnected Endpoint)"]

RECURSIVE DangleScan(_, _, _)
\* lines 402-441: the loop over the endpoints
DangleScan(endpoints, lines_data, tolerance) ==
    IF endpoints = <<>> THEN <<>>
    ELSE LET ep == endpoints[1]
             my_geom == lines_data[ep.line_idx + 1].geom
             ring == my_geom.geom_type = "LineString" /\ is_ring(my_geom)
         IN (IF ~is_connected(ep, lines_data, tolerance) /\ ~ring
             THEN << DangleError(ep) >> ELSE <<>>)
            \o DangleScan(Tail(endpoints), lines_data, tolerance)

\* find_dangles(lines_data, tolerance)
find_dangles(lines_data, tolerance) ==
    DangleScan(Endpoints(lines_data), lines_data, tolerance)

\* line 451: geom.length < min_len
TooShortOrEqual(geom, min_len) == length(geom) * min_len[2] <= min_len[1]

TooShort(geom, min_len) == length(geom) * min_len[2] < min_len[1]

\* lines 452-461: the finding of a short record
ShortError(item) ==
    [geometry_index |-> item.id,
     id             |-> <<"short", "-">> \o str(item.line_no),
     line_number    |-> item.line_no,
     severity       |-> "LOW",
     type           |-> "Short Line Segment"]

RECURSIVE find_short_lines(_, _)
\* find_short_lines(lines_data, min_len)
find_short_lines(lines_data, min_len) ==
    IF lines_data = <<>> THEN <<>>
    ELSE LET item == lines_data[1]
         IN (IF item.geom # None /\ ~is_empty(item.geom) /\ TooShort(item.geom, min_len)
             THEN << ShortError(item) >> ELSE <<>>)
            \o find_short_lines(Tail(lines_data), min_len)

RECURSIVE ValidityErrors(_)
\* lines 516-528: one finding per record that is not valid
ValidityErrors(lines_data) ==
    IF lines_data = <<>> THEN <<>>
    ELSE LET item == lines_data[1]
         IN (IF ~is_valid(item.geom)
             THEN << [geometry_index |-> item.id,
                      id             |-> <<"invalid", "-">> \o str(item.line_no),
                      line_number    |-> item.line_no,
                      severity       |-> "CRITICAL",
                      type           |-> "Invalid Geometry"] >>
             ELSE <<>>)
            \o ValidityErrors(Tail(lines_data))

\* run_geometry_qa(uploaded_file): the errors and the records of the response
run_geometry_qa(text) ==
    LET lines_data == lines_data_of(text)
    IN IF Len(lines_data) < 1
       THEN [errors |-> << [type |-> "insufficient_data"] >>, lines_data |-> lines_data]
       ELSE [errors |-> ValidityErrors(lines_data)
                        \o find_dangles(lines_data, TOLERANCE)
                        \o find_short_lines(lines_data, MIN_LINE_LENGTH),
             lines_data |-> lines_data]

(***************************************************************************)
(* The requests the model serves.                                          *)
(***************************************************************************)
LnA == << "LINESTRING(0 0, 4 0)" >>

LnB == << " ", "LINESTRING(4 0, 4 3)", " " >>

LnU == << "SRID=4326", ";", "LINESTRING(0 5, 1 5, 2 5, 2 7, 0 7)" >>

LnOpen == << "LINESTRING(0 0," >>

LnClose == << " ", "4 0)" >>

LnBad == << "LINESTRING(0 0, oops)" >>

LnEmpty == << "GEOMETRYCOLLECTION(POINT EMPTY)" >>

LnBlank == << " " >>

LnPoint == << "POINT(9 9)" >>

LnPoly == << "POLYGON((6 0, 8 0, 8 2, 6 0))" >>

LnMid == << "LINESTRING(2 0, 2 3)" >>

LnShort == << "LINESTRING(0 0, 1 0)" >>

LnTwo == << "LINESTRING(6 5, 6 7)" >>

LnRing == << "LINESTRING(0 5, 2 5, 2 7, 0 7, 0 5)" >>

LnFar1 == << "LINESTRING(0 0, 10 0)" >>

LnFar2 == << "LINESTRING(20 0, 30 0)" >>

LnCorner == << "LINESTRING(10 0, 10 10)" >>

LnFive == << "LINESTRING(0 0, 5 0)" >>

LnMulti == << "MULTILINESTRING((0 5, 2 5, 2 7, 0 7, 0 5), (6 5, 6 7))" >>

\* the uploaded files: each a sequence of lines
Texts ==
    { << LnA, LnB >>,
      << LnBad, LnA >>,
      << LnBlank, LnOpen, LnClose, LnU >>,
      << LnA, LnEmpty, LnPoint >>,
      << LnPoly, LnB, LnBad >>,
      << LnPoint, LnPoint >>,
      << >> }

\* the lines of the texts whose diagnostics are checked on their own
QaPool == { LnA, LnMid, LnShort, LnRing, LnBad }

\* the scenarios of two lines ten units apart and of two lines sharing an end,
\* a line of the minimum length, a point, blank lines around a malformed line,
\* a multi-part line of a ring and an open part, alone and beside a line
\* that lies on its open part
ScenarioTexts ==
    { << LnFar1, LnFar2 >>, << LnFar1, LnCorner >>, << LnTwo >>, << LnTwo, LnShort >>,
      << LnPoint, LnA >>, << LnBlank, LnBad, LnBlank, LnB, LnA >>,
      << LnMulti >>, << LnMulti, LnTwo >> }

\* every text of at most MaxLines lines of the pool, and the texts above
QaTexts ==
    UNION { [1..n -> QaPool] : n \in 0..MaxLines } \cup ScenarioTexts \cup Texts

\* the finding ids a request may carry
ErrorIds ==
    { << "dangle" >>,
      << "dangle", "-", "0", "-", "start" >>,
      << "dangle", "-", "1", "-", "0" >>,
      << "short", "-", "2" >>,
      << "short", "-", "1", "2" >>,
      << "-", "1" >>,
      << "x", "-", SuperscriptTwo >> }

\* the fix type names a request may carry
FixTypeNames == FixTypes \cup {"delete", "SPLIT"}

\* the parameter maps a request may carry
ParamMaps ==
    { NoParams,
      { <<"tolerance", <<1, 4>> >>, <<"interval", <<2, 1>> >> },
      { <<"tolerance", <<3, 1>> >> } }

\* the shapely builds the engine may run on
ShapelyVersions == {1, 2}

Request(error_id, fix_type, params) ==
    [error_id |-> error_id, fix_type |-> fix_type, params |-> params]

IdNone == << "dangle" >>

Id0 == << "dangle", "-", "0", "-", "start" >>

Id1 == << "dangle", "-", "1", "-", "0" >>

Id2 == << "short", "-", "2" >>

Id12 == << "short", "-", "1", "2" >>

IdSup == << "x", "-", SuperscriptTwo >>

Coarse == { <<"tolerance", <<1, 4>> >>, <<"interval", <<2, 1>> >> }

Wide == { <<"tolerance", <<3, 1>> >> }

\* the apply-fix requests that are served; the claims quantify over every
\* combination of ErrorIds, FixTypeNames and ParamMaps in each state reached
Requests ==
    { Request(Id0, "SNAP", NoParams),
      Request(Id0, "SNAP", Wide),
      Request(Id0, "DELETE", NoParams),
      Request(Id1, "delete", NoParams),
      Request(Id1, "CLOSE", NoParams),
      Request(Id0, "REVERSE", NoParams),
      Request(Id1, "DENSIFY", Coarse),
      Request(Id0, "SIMPLIFY", NoParams),
      Request(Id0, "BUFFER", NoParams),
      Request(Id1, "OTHER", NoParams),
      Request(Id2, "MAKE_VALID", NoParams),
      Request(IdNone, "DELETE", NoParams),
      Request(Id12, "OTHER", NoParams),
      Request(IdSup, "DELETE", NoParams),
      Request(Id0, "SPLIT", NoParams) }

\* the texts and the apply-fix requests of the clients that do not wait for
\* one another
AsyncTexts == { << LnA, LnB >>, << LnBad, LnA >> }

AsyncRequests ==
    { Request(Id0, "DELETE", NoParams),
      Request(Id1, "CLOSE", NoParams),
      Request(Id0, "SNAP", NoParams) }

\* where the handler of /qa/geometry is suspended: "read" at the awaits of
\* main.py:116-117, before the engine is loaded; "loaded" at the await of
\* geometry_qa.py:470, after load_wkt_content and before the diagnostics
UploadStages == AsyncTexts \X {"read", "loaded"}

InFlight == LET Sum[S \in SUBSET UploadStages] ==
                    IF S = {} THEN 0
                    ELSE LET x == CHOOSE x \in S : TRUE
                         IN uploads[x] + Sum[S \ {x}]
            IN Sum[UploadStages]

Init ==
    /\ original_geometries = <<>>
    /\ current_geometries = <<>>
    /\ applied_fixes = <<>>
    /\ ret = [op |-> "init"]
    /\ fix_ok = 0
    /\ uploads = [x \in UploadStages |-> 0]

\* the value v, compared with itself so that TLC holds its records in
\* canonical form before an action binds it
Evaluated(v) == CHOOSE r \in {v} : r = v

\* POST /qa/geometry (main.py:106-130): load the engine, then run the
\* diagnostics on the same file
Upload(text) ==
    \E loaded \in { load_wkt_content(Self, text) },
       result \in { Evaluated(run_geometry_qa(text)) } :
       /\ original_geometries' = loaded.self.original_geometries
       /\ current_geometries' = loaded.self.current_geometries
       /\ applied_fixes' = loaded.self.applied_fixes
       /\ ret' = [op |-> "geometry_qa", count |-> loaded.count, text |-> text,
                  lines_data |-> result.lines_data, errors |-> result.errors]
       /\ fix_ok' = 0
       /\ UNCHANGED uploads

\* the handler of /qa/geometry starts on a request and is suspended reading
\* the file (main.py:116-117)
UploadBegin(text) ==
    /\ InFlight < MaxUploads
    /\ uploads' = [uploads EXCEPT ![<<text, "read">>] = @ + 1]
    /\ UNCHANGED <<original_geometries, current_geometries, applied_fixes, ret, fix_ok>>

\* the handler resumes: main.py:120-125 loads the engine and enters
\* run_geometry_qa up to its await (geometry_qa.py:470); nothing in between
\* suspends
UploadLoad(text) ==
    /\ uploads[<<text, "read">>] > 0
    /\ \E loaded \in { load_wkt_content(Self, text) } :
          /\ original_geometries' = loaded.self.original_geometries
          /\ current_geometries' = loaded.self.current_geometries
          /\ applied_fixes' = loaded.self.applied_fixes
          /\ ret' = [op |-> "load_wkt_content", count |-> loaded.count, text |-> text]
    /\ fix_ok' = 0
    /\ uploads' = [uploads EXCEPT ![<<text, "read">>] = @ - 1,
                                  ![<<text, "loaded">>] = @ + 1]

\* the handler resumes in run_geometry_qa (geometry_qa.py:472-601) and
\* returns the findings of its file
UploadDiagnose(text) ==
    /\ uploads[<<text, "loaded">>] > 0
    /\ \E result \in { Evaluated(run_geometry_qa(text)) } :
          ret' = [op |-> "geometry_qa", count |-> load_wkt_content(Self, text).count,
                  text |-> text, lines_data |-> result.lines_data,
                  errors |-> result.errors]
    /\ uploads' = [uploads EXCEPT ![<<text, "loaded">>] = @ - 1]
    /\ UNCHANGED <<original_geometries, current_geometries, applied_fixes, fix_ok>>

\* POST /qa/apply-fix (main.py:142-149)
ApplyFix(request, shapely) ==
    \E out \in { apply_fix(Self, request.error_id, request.fix_type,
                           request.params, shapely) } :
       /\ out.ret.success => Len(applied_fixes) < MaxFixes
       /\ original_geometries' = out.self.original_geometries
       /\ current_geometries' = out.self.current_geometries
       /\ applied_fixes' = out.self.applied_fixes
       /\ ret' = [op |-> "apply_fix", request |-> request, kind |-> out.ret.kind,
                  success |-> out.ret.success, message |-> out.ret.message]
       /\ fix_ok' = IF out.ret.success THEN fix_ok + 1 ELSE fix_ok
       /\ UNCHANGED uploads

\* a caller reads a slot through get_geometry
GetGeometry(index) ==
    /\ ret' = [op |-> "get_geometry", index |-> index, value |-> get_geometry(Self, index)]
    /\ UNCHANGED <<original_geometries, current_geometries, applied_fixes, fix_ok, uploads>>

\* GET /qa/export/fixed-wkt (main.py:151-156)
ExportFixedWkt ==
    /\ ret' = export_fixed_wkt(Self)
    /\ UNCHANGED <<original_geometries, current_geometries, applied_fixes, fix_ok, uploads>>

\* GET /qa/export/fix-report (main.py:158-163)
ExportReport ==
    /\ ret' = export_report(Self)
    /\ UNCHANGED <<original_geometries, current_geometries, applied_fixes, fix_ok, uploads>>

\* the indices a caller reads: around both ends of the working sequence
Indices == {-1, 0, 1, Len(current_geometries)}

Next ==
    \/ \E text \in Texts : Upload(text)
    \/ \E request \in Requests, shapely \in ShapelyVersions : ApplyFix(request, shapely)
    \/ \E index \in Indices : GetGeometry(index)
    \/ ExportFixedWkt
    \/ ExportReport

Spec == Init /\ [][Next]_vars

\* the uploads alone, over every text of QaTexts
NextQa == \E text \in QaTexts : Upload(text)

SpecQa == Init /\ [][NextQa]_vars

\* the texts and the apply-fix requests of a client that closes, reverses and
\* resamples lines of several lengths, a ring, a polygon and a point
ShapeTexts ==
    { << LnA, LnB >>, << LnFive >>, << LnRing >>, << LnPoly, LnB, LnBad >>,
      << LnPoint, LnPoint >> }

ShapeRequests ==
    { Request(Id0, "CLOSE", NoParams),
      Request(Id1, "Close", NoParams),
      Request(Id0, "DENSIFY", NoParams),
      Request(Id0, "DENSIFY", Coarse),
      Request(Id1, "DENSIFY", Coarse),
      Request(Id0, "REVERSE", NoParams) }

NextShapes ==
    \/ \E text \in ShapeTexts : Upload(text)
    \/ \E request \in ShapeRequests, shapely \in ShapelyVersions : ApplyFix(request, shapely)

SpecShapes == Init /\ [][NextShapes]_vars

\* the requests of clients that do not wait for one another: the handlers run
\* on one event loop and a handler gives way to the others at its awaits only
NextAsync ==
    \/ \E text \in AsyncTexts : UploadBegin(text)
    \/ \E text \in AsyncTexts : UploadLoad(text)
    \/ \E text \in AsyncTexts : UploadDiagnose(text)
    \/ \E request \in AsyncRequests, shapely \in ShapelyVersions : ApplyFix(request, shapely)
    \/ \E index \in Indices : GetGeometry(index)
    \/ ExportFixedWkt
    \/ ExportReport

SpecAsync == Init /\ [][NextAsync]_vars

(***************************************************************************)
(* Properties.  A step that leaves ret.op = "apply_fix" is an apply_fix    *)
(* call, served with the request in ret.request; a step that leaves        *)
(* ret.op = "geometry_qa" is an upload, which loads the engine.            *)
(***************************************************************************)
FixStep == ret'.op = "apply_fix"

LoadStep == ret'.op = "geometry_qa"

Tokens(error_id) == split(error_id, "-")

\* the positions of the tokens of error_id made of digit characters only
NumericTokens(error_id) ==
    { k \in 1..Len(Tokens(error_id)) : isdigit(Tokens(error_id)[k]) }

\* the integer of the first token, from the left, that is a decimal number
FirstNumber(error_id) ==
    LET k == CHOOSE k \in NumericTokens(error_id) :
                 \A j \in NumericTokens(error_id) : k <= j
    IN DecimalValue(Tokens(error_id)[k])

\* error_id names a slot of geoms: its first numeric token is a decimal
\* number below the length
NamesSlot(error_id, geoms) ==
    /\ NumericTokens(error_id) # {}
    /\ ~ResolveIndex(error_id).raised
    /\ FirstNumber(error_id) < Len(geoms)

\* the slots (0-based) in which two sequences differ
ChangedSlots(before, after) ==
    { i \in 0..(Len(before) - 1) : i >= Len(after) \/ before[i + 1] # after[i + 1] }
    \cup { i \in 0..(Len(after) - 1) : i >= Len(before) }

Tombstoned(geoms) == { i \in 0..(Len(geoms) - 1) : geoms[i + 1] = None }

\* what export takes from geoms when slot i (0-based) is left out
ExportedWithout(geoms, i) ==
    FilterSeq(geoms, { k \in 1..Len(geoms) :
                           k # i + 1 /\ geoms[k] # None /\ ~is_empty(geoms[k]) })

\* C1: original and working have the same length in every state, and no
\* apply_fix call, of any fix type and finding id, successful or failed,
\* changes the length of either sequence.
C1_SameLength ==
    [][ /\ Len(original_geometries) = Len(current_geometries)
        /\ Len(original_geometries') = Len(current_geometries')
        /\ FixStep => /\ Len(current_geometries') = Len(current_geometries)
                      /\ Len(original_geometries') = Len(original_geometries) ]_vars

\* a three-slot dataset after a DELETE: one slot is a tombstone, none is gone
C1_Witness ==
    /\ Len(current_geometries) = 3
    /\ ret.op = "apply_fix"
    /\ ret.success
    /\ \E i \in 1..3 : current_geometries[i] = None /\ original_geometries[i] # None

\* C2: no apply_fix call changes the original snapshot; only the working
\* sequence and the fix log may differ afterwards.
C2_OriginalUntouched ==
    [][ FixStep => original_geometries' = original_geometries ]_vars

\* a successful fix has made the working sequence differ from the original
C2_Witness ==
    /\ ret.op = "apply_fix"
    /\ ret.success
    /\ current_geometries # original_geometries

\* C3: a call that returns success appends exactly one record, a call that
\* returns failure appends none, and the log is as long as the number of
\* successful calls since the last load.
C3_OneRecordPerSuccess ==
    [][ /\ Len(applied_fixes') = fix_ok'
        /\ FixStep =>
             IF ret'.success
             THEN /\ Len(applied_fixes') = Len(applied_fixes) + 1
                  /\ Last(applied_fixes').error_id = ret'.request.error_id
                  /\ Last(applied_fixes').fix_type = ret'.request.fix_type
             ELSE applied_fixes' = applied_fixes ]_vars

\* a failed call after two successful ones
C3_Witness ==
    /\ fix_ok = 2
    /\ ret.op = "apply_fix"
    /\ ~ret.success

\* C4: an index that holds a tombstone resolves to a tombstone for get, for
\* export (the slot is not among the exported records) and for the
\* diagnostics run on the loaded dataset (no diagnosed record carries that
\* index), and it still holds a tombstone after any call that is not a load.
C4_TombstoneStays ==
    [][ /\ \A i \in Tombstoned(current_geometries') :
              /\ get_geometry(Self', i) = None
              /\ valid_geoms(Self') = ExportedWithout(current_geometries', i)
              /\ LoadStep => \A k \in 1..Len(ret'.lines_data) : ret'.lines_data[k].id # i
        /\ ~LoadStep => Tombstoned(current_geometries) \subseteq Tombstoned(current_geometries')
      ]_vars

\* C5: a load leaves an empty fix log and a working sequence equal to the
\* original one, and the engine is then what the uploaded text alone gives a
\* new engine: nothing of the dataset loaded before remains.
C5_LoadReplaces ==
    [][ LoadStep =>
          /\ applied_fixes' = <<>>
          /\ current_geometries' = original_geometries'
          /\ \E text \in Texts :
                 Self' = load_wkt_content([original_geometries |-> <<>>,
                                           current_geometries  |-> <<>>,
                                           applied_fixes       |-> <<>>], text).self ]_vars

\* a dataset with fixes applied, which a load of another text replaces
C5_Witness ==
    /\ applied_fixes # <<>>
    /\ current_geometries # original_geometries
    /\ \E text \in Texts :
           load_wkt_content(Self, text).self.original_geometries # original_geometries

\* C6: after any apply_fix call the previous fix log is a prefix of the new
\* one.
C6_LogGrows ==
    [][ FixStep => IsPrefix(applied_fixes, applied_fixes') ]_vars

\* a log of two different records
C6_Witness ==
    /\ Len(applied_fixes) = 2
    /\ applied_fixes[1] # applied_fixes[2]

C8_FirstNumericToken ==
    [][ (FixStep /\ NamesSlot(ret'.request.error_id, current_geometries)) =>
          LET k == FirstNumber(ret'.request.error_id)
          IN /\ ChangedSlots(current_geometries, current_geometries') \subseteq {k}
             /\ ret'.success =>
                    Last(applied_fixes').original = wkt(current_geometries[k + 1])
             /\ (ret'.success /\ upper(ret'.request.fix_type) = "DELETE") =>
                    /\ k < Len(current_geometries')
                    /\ current_geometries'[k + 1] = None ]_vars

\* "dangle-1-0" with a delete has emptied slot 1 and left slot 0 alive
C8_Witness ==
    /\ ret.op = "apply_fix"
    /\ ret.success
    /\ ret.request.error_id = Id1
    /\ upper(ret.request.fix_type) = "DELETE"
    /\ current_geometries[2] = None
    /\ current_geometries[1] # None

\* C9: get on an index outside the working sequence gives a result that
\* differs from the result for a tombstoned slot inside it.
C9_OutOfRangeDistinct ==
    \A i \in {-1, Len(current_geometries)} :
        \A j \in Tombstoned(current_geometries) :
            get_geometry(Self, i) # get_geometry(Self, j)

\* C10: in every state, DELETE on any index inside the working sequence,
\* whatever the slot holds, returns success, leaves a tombstone that export
\* leaves out, and makes the fix log one record longer.
C10_DeleteNeverFails ==
    \A error_id \in ErrorIds :
        NamesSlot(error_id, current_geometries) =>
            \A out \in { apply_fix(Self, error_id, "DELETE", NoParams, 2) } :
                /\ out.ret.success
                /\ get_geometry(out.self, FirstNumber(error_id)) = None
                /\ valid_geoms(out.self) =
                       ExportedWithout(current_geometries, FirstNumber(error_id))
                /\ Len(out.self.applied_fixes) = Len(applied_fixes) + 1

\* C11: in every state, a fix type name that is none of the nine names, on a
\* finding id that names a slot of the working sequence (whatever the slot
\* holds), fails with the unknown-fix-type error and leaves the engine as it
\* was.
C11_UnknownFixType ==
    \A error_id \in ErrorIds :
        NamesSlot(error_id, current_geometries) =>
            \A fix_type \in { f \in FixTypeNames : upper(f) \notin FixTypes } :
                \A out \in { apply_fix(Self, error_id, fix_type, NoParams, 2) } :
                    /\ ~out.ret.success
                    /\ out.ret.message.text = "Unknown fix type"
                    /\ out.self = Self

\* the last step was a load or a successful fix, or none was taken yet: the
\* steps that can have changed the fields of the engine
EngineFresh ==
    \/ ret.op \in {"init", "geometry_qa", "load_wkt_content"}
    \/ (ret.op = "apply_fix" /\ ret.success)

\* C12: in every state, for every finding id, fix type name, parameter map
\* and shapely build, apply_fix ends by returning a dict with a boolean
\* success and a message: no error leaves the call and no call ends without
\* a result.  What a call returns depends on the fields of the engine only,
\* and every step other than a load or a successful fix leaves them as they
\* were (first conjunct), so the calls are evaluated in the states a load or
\* a successful fix leaves (second conjunct).
C12_AlwaysStructured ==
    /\ [][ ~EngineFresh' =>
              UNCHANGED <<original_geometries, current_geometries, applied_fixes>> ]_vars
    /\ [](EngineFresh =>
            \A error_id \in ErrorIds, fix_type \in FixTypeNames,
               params \in ParamMaps, shapely \in ShapelyVersions :
                \A out \in { apply_fix(Self, error_id, fix_type, params, shapely) } :
                    /\ out.ret.kind = "dict"
                    /\ out.ret.success \in BOOLEAN
                    /\ out.ret.message.text # "")

\* a SNAP met a tombstoned neighbour, whose distance shapely 1 cannot take,
\* and the call still returned a failure dict
C12_Witness ==
    /\ ret.op = "apply_fix"
    /\ ret.kind = "dict"
    /\ ~ret.success
    /\ ret.message.text = "Null geometry supports no operations"
    /\ \E i \in 1..Len(current_geometries) : current_geometries[i] = None

\* the other slots (0-based) that hold a geometry closer to slot idx than tol
SnapNeighbours(geoms, idx, tol) ==
    { i \in 0..(Len(geoms) - 1) :
          /\ i # idx
          /\ truthy(geoms[i + 1])
          /\ DistBelow(SqDistance(geoms[idx + 1], geoms[i + 1]), tol) }

\* C13: in every state, SNAP on a live target succeeds, with the distance of
\* the nearest other live record, when some other live record is closer than
\* the tolerance (0.5 or the parameter), and fails with the
\* no-geometry-within-tolerance error when none is; tombstones in other
\* slots make no difference.
C13_SnapIgnoresTombstones ==
    \A error_id \in ErrorIds :
        (/\ NamesSlot(error_id, current_geometries)
         /\ truthy(current_geometries[FirstNumber(error_id) + 1]))
        => \A params \in ParamMaps, shapely \in ShapelyVersions :
               \A out \in { apply_fix(Self, error_id, "SNAP", params, shapely) } :
                   LET idx == FirstNumber(error_id)
                       tol == ParamGet(params, "tolerance", DefaultTolerance)
                       near == SnapNeighbours(current_geometries, idx, tol)
                   IN IF near # {}
                      THEN /\ out.ret.success
                           /\ \A i \in near :
                                  ~RatLess(SqDistance(current_geometries[idx + 1],
                                                      current_geometries[i + 1]),
                                           out.ret.message.arg)
                      ELSE /\ ~out.ret.success
                           /\ out.ret.message.text = "No geometry found within snap tolerance"

\* the text with every malformed line replaced by a well-formed one
Repaired(text) == [i \in 1..Len(text) |-> IF text[i] = LnBad THEN LnA ELSE text[i]]

\* C14: after an upload, the engine holds what it holds for the text with
\* its malformed statements repaired, except for one tombstone at the index
\* of each malformed statement; and every record of the diagnostics has the
\* index and source line it has for the repaired text.
C14_ParseFailuresIsolated ==
    ret.op = "geometry_qa" =>
        LET good == load_wkt_content(Self, Repaired(ret.text)).self.current_geometries
            qa_good == lines_data_of(Repaired(ret.text))
        IN /\ Len(current_geometries) = Len(good)
           /\ \A i \in 1..Len(good) :
                  current_geometries[i] = good[i] \/ current_geometries[i] = None
           /\ Cardinality(Tombstoned(current_geometries))
                  = Cardinality({ i \in 1..Len(ret.text) : ret.text[i] = LnBad })
           /\ \A k \in 1..Len(ret.lines_data) :
                  \E j \in 1..Len(qa_good) :
                      /\ qa_good[j].line_no = ret.lines_data[k].line_no
                      /\ qa_good[j].id = ret.lines_data[k].id

\* the findings of one type, in the order reported
FindingsOf(errors, type) == SelectSeq(errors, LAMBDA e : e.type = type)

\* the endpoints <<k, p, loc>> of the records: record k (1-based), part p
EndpointsOf(lines_data) ==
    { <<k, p, loc>> \in (1..Len(lines_data)) \X (1..2) \X {"start", "end"} :
          /\ lines_data[k].geom.geom_type \in {"LineString", "MultiLineString"}
          /\ p <= Len(lines_data[k].geom.parts) }

EndpointCoord(lines_data, e) ==
    LET coords == lines_data[e[1]].geom.parts[e[2]]
    IN IF e[3] = "start" THEN coords[1] ELSE Last(coords)

\* no other record has a point within the tolerance of the endpoint
Unconnected(lines_data, e) ==
    \A j \in 1..Len(lines_data) :
        j # e[1] => ~DistWithin(SqDistance(Point(EndpointCoord(lines_data, e)),
                                          lines_data[j].geom), TOLERANCE)

\* the dangle findings are exactly those of the endpoints in expected, one each
DanglesAre(lines_data, errors, expected) ==
    LET dangles == FindingsOf(errors, "Dangle (Unconnected Endpoint)")
    IN /\ Len(dangles) = Cardinality(expected)
       /\ { <<dangles[i].geometry_index, Last(dangles[i].id), dangles[i].error_point>> :
                i \in 1..Len(dangles) }
           = { <<e[1] - 1, e[3], EndpointCoord(lines_data, e)>> : e \in expected }

C17_ShortSegments ==
    (ret.op = "geometry_qa" /\ ret.lines_data # <<>>) =>
        LET shorts == FindingsOf(ret.errors, "Short Line Segment")
            expected == { k \in 1..Len(ret.lines_data) :
                              length(ret.lines_data[k].geom) < 2 }
        IN /\ Len(shorts) = Cardinality(expected)
           /\ { shorts[i].geometry_index : i \in 1..Len(shorts) }
                  = { k - 1 : k \in expected }
           /\ \A i \in 1..Len(shorts) : shorts[i].severity = "LOW"
           /\ ret.text = << LnShort >> => Len(shorts) = 1

\* a line of length 1 next to a line of length exactly 2: one finding, for
\* the line of length 1
C17_Witness ==
    /\ ret.op = "geometry_qa"
    /\ ret.text = << LnTwo, LnShort >>
    /\ LET shorts == FindingsOf(ret.errors, "Short Line Segment")
       IN Len(shorts) = 1 /\ shorts[1].geometry_index = 1

\* C15: whenever a handler may run, that is in every state of the
\* interleaved requests, the store is one dataset as a whole: the original
\* sequence is what one of the texts loads, the working sequence has its
\* length and differs from it only in slots that a logged fix names, every
\* logged fix names a slot of it and the first fix logged for a slot holds
\* the original text of that slot, and with an empty fix log the two are
\* equal.
C15_LoadAtomic ==
    /\ \E text \in AsyncTexts \cup { <<>> } :
           original_geometries = load_wkt_content(Self, text).self.original_geometries
    /\ Len(current_geometries) = Len(original_geometries)
    /\ \A i \in ChangedSlots(original_geometries, current_geometries) :
           \E k \in 1..Len(applied_fixes) :
               /\ NamesSlot(applied_fixes[k].error_id, current_geometries)
               /\ FirstNumber(applied_fixes[k].error_id) = i
    /\ \A k \in 1..Len(applied_fixes) :
           /\ NamesSlot(applied_fixes[k].error_id, current_geometries)
           /\ (\A j \in 1..(k - 1) : FirstNumber(applied_fixes[j].error_id)
                                         # FirstNumber(applied_fixes[k].error_id))
              => applied_fixes[k].original
                     = wkt(original_geometries[FirstNumber(applied_fixes[k].error_id) + 1])
    /\ applied_fixes = <<>> => current_geometries = original_geometries

\* two uploads of different texts are suspended after their loads, the store
\* holds the dataset of one of them and a fix has been applied to it
C15_Witness ==
    /\ \A text \in AsyncTexts : uploads[<<text, "loaded">>] = 1
    /\ applied_fixes # <<>>
    /\ current_geometries # original_geometries

\* the live records of geoms, in index order: neither None nor empty
LiveRecords(geoms) ==
    FilterSeq(geoms, { i \in 1..Len(geoms) : geoms[i] # None /\ geoms[i].parts # <<>> })

\* C18 as stated: an export returns the empty string when no record is live,
\* the text of the record when one is, and one multi-part collection of all
\* the live records, in index order, when more than one is.
C18_ExportExactlyLive ==
    ret.op = "export_fixed_wkt" =>
        LET live == LiveRecords(current_geometries)
        IN /\ ~ret.raised
           /\ Len(live) = 0 => ret.text = EmptyText
           /\ Len(live) = 1 => ret.text = wkt(live[1])
           /\ Len(live) > 1 =>
                  /\ ret.text.tag \in {"MULTILINESTRING", "GEOMETRYCOLLECTION"}
                  /\ Len(ret.text.body) = Len(live)

\* C19: a report leaves the store unchanged and holds the length of the
\* original sequence (tombstones counted), the length of the fix log, and one
\* block per logged fix, in the order of the log, with the finding id, the
\* fix type and the result of that fix.
C19_ReportMatchesLog ==
    [][ ret'.op = "export_report" =>
          /\ UNCHANGED <<original_geometries, current_geometries, applied_fixes>>
          /\ ret'.total_objects = Len(original_geometries)
          /\ ret'.total_fixes = Len(applied_fixes)
          /\ Len(ret'.blocks) = Len(applied_fixes)
          /\ \A i \in 1..Len(applied_fixes) :
                 /\ ret'.blocks[i].number = i
                 /\ ret'.blocks[i].error_id = applied_fixes[i].error_id
                 /\ ret'.blocks[i].type = applied_fixes[i].fix_type
                 /\ ret'.blocks[i].action = applied_fixes[i].result ]_vars

\* a report of two different fixes on a dataset that has a tombstone
C19_Witness ==
    /\ ret.op = "export_report"
    /\ ret.total_fixes = 2
    /\ ret.blocks[1].type # ret.blocks[2].type
    /\ ret.total_objects = 3
    /\ \E i \in 1..3 : original_geometries[i] = None

\* C20: running the diagnostics changes none of original, working and the
\* fix log, and every record diagnosed is the record that the working
\* sequence holds at that index when the diagnostics are asked for.
C20_DiagnosePure ==
    [][ LoadStep =>
          /\ UNCHANGED <<original_geometries, current_geometries, applied_fixes>>
          /\ \A k \in 1..Len(ret'.lines_data) :
                 /\ ret'.lines_data[k].id < Len(current_geometries)
                 /\ ret'.lines_data[k].geom = current_geometries[ret'.lines_data[k].id + 1]
      ]_vars

\* the names under which a request asks for CLOSE
CloseNames == { name \in FixTypeNames \cup {"Close"} : upper(name) = "CLOSE" }

\* C21: CLOSE on a slot holding an open LineString of coordinates c leaves
\* there the LineString of c followed by c's first coordinate, whose first
\* coordinate equals its last; CLOSE on a closed LineString or on a Polygon
\* leaves the working sequence as it is; and a second CLOSE of the same slot
\* leaves the working sequence as the first CLOSE left it.
C21_CloseOnce ==
    \A error_id \in ErrorIds, fix_type \in CloseNames,
       params \in ParamMaps, shapely \in ShapelyVersions :
        NamesSlot(error_id, current_geometries) =>
            LET i == FirstNumber(error_id) + 1
                g == current_geometries[i]
                out == apply_fix(Self, error_id, fix_type, params, shapely)
                again == apply_fix(out.self, error_id, fix_type, params, shapely)
            IN /\ (g.geom_type = "LineString" /\ ~is_empty(g)
                                             /\ g.parts[1][1] # Last(g.parts[1])) =>
                      /\ out.ret.success
                      /\ out.self.current_geometries =
                            [current_geometries EXCEPT ![i] =
                                [geom_type |-> "LineString",
                                 parts |-> << g.parts[1] \o << g.parts[1][1] >> >>]]
                      /\ out.self.current_geometries[i].parts[1][1]
                            = Last(out.self.current_geometries[i].parts[1])
               /\ (\/ g.geom_type = "Polygon"
                   \/ (g.geom_type = "LineString" /\ ~is_empty(g)
                                                  /\ g.parts[1][1] = Last(g.parts[1]))) =>
                      /\ out.ret.success
                      /\ out.self.current_geometries = current_geometries
               /\ g # None => again.self.current_geometries = out.self.current_geometries

\* the open line (4 0, 4 3) was closed to (4 0, 4 3, 4 0) and closed again
C21_Witness ==
    /\ ret.op = "apply_fix"
    /\ ret.success
    /\ upper(ret.request.fix_type) = "CLOSE"
    /\ ret.message.text = "Ring already closed"
    /\ Len(applied_fixes) = 2
    /\ applied_fixes[1].result.text = "Closed the ring by connecting end to start"
    /\ applied_fixes[1].error_id = applied_fixes[2].error_id
    /\ Len(current_geometries) >= 2
    /\ current_geometries[2] = LineString(<< <<4, 0>>, <<4, 3>>, <<4, 0>> >>)
    /\ original_geometries[2] = LineB

\* C22: after an upload, the records of the diagnostics and the slots of the
\* engine are as many, record k of the diagnostics has index k (0-based), and
\* it is the geometry the engine holds in slot k.
C22_SameParse ==
    ret.op = "geometry_qa" =>
        /\ Len(ret.lines_data) = Len(current_geometries)
        /\ \A k \in 1..Len(ret.lines_data) :
               /\ ret.lines_data[k].id = k - 1
               /\ k <= Len(current_geometries)
               /\ ret.lines_data[k].geom = current_geometries[k]

\* the line part that owns endpoint e is closed: its first coordinate is its last
ClosedPart(lines_data, e) ==
    LET coords == lines_data[e[1]].geom.parts[e[2]]
    IN coords[1] = Last(coords)

\* C23: after an upload, the dangle findings are exactly the endpoints from
\* which no other record lies within the tolerance and whose line part, the
\* record's LineString or a member of its MultiLineString, is not closed; each
\* has severity HIGH.
C23_RingPartsExempt ==
    (ret.op = "geometry_qa" /\ ret.lines_data # <<>>) =>
        /\ DanglesAre(ret.lines_data, ret.errors,
                      { e \in EndpointsOf(ret.lines_data) :
                            /\ Unconnected(ret.lines_data, e)
                            /\ ~ClosedPart(ret.lines_data, e) })
        /\ \A i \in 1..Len(ret.errors) :
               ret.errors[i].type = "Dangle (Unconnected Endpoint)"
                   => ret.errors[i].severity = "HIGH"

\* C28: after an upload, no two findings of the list returned have the same id.
C28_UniqueIds ==
    (ret.op = "geometry_qa" /\ ret.lines_data # <<>>) =>
        \A i, j \in 1..Len(ret.errors) :
            i # j => ret.errors[i].id # ret.errors[j].id

\* C24 as stated: CLOSE or REVERSE asked of a slot that holds a Point, and
\* DENSIFY asked of a slot that holds a geometry other than a LineString, is
\* refused: success is false, the working sequence is unchanged and the fix
\* log gets no record.
C24_NotApplicableFails ==
    \A error_id \in ErrorIds, fix_type \in {"CLOSE", "REVERSE", "DENSIFY"},
       params \in ParamMaps, shapely \in ShapelyVersions :
        (/\ NamesSlot(error_id, current_geometries)
         /\ current_geometries[FirstNumber(error_id) + 1] # None
         /\ LET kind == current_geometries[FirstNumber(error_id) + 1].geom_type
            IN IF fix_type = "DENSIFY" THEN kind # "LineString" ELSE kind = "Point")
        => LET out == apply_fix(Self, error_id, fix_type, params, shapely)
           IN /\ ~out.ret.success
              /\ out.self.current_geometries = current_geometries
              /\ out.self.applied_fixes = applied_fixes

\* C25: after an upload, for every finding of the list returned, the index
\* that apply_fix takes from the finding's id is the finding's geometry_index.
C25_IdNamesIndex ==
    (ret.op = "geometry_qa" /\ ret.lines_data # <<>>) =>
        \A i \in 1..Len(ret.errors) :
            /\ ~ResolveIndex(ret.errors[i].id).raised
            /\ ResolveIndex(ret.errors[i].id).value = ret.errors[i].geometry_index

\* C26: an apply_fix call that returns success = false, whatever the reason,
\* leaves the working sequence, the fix log and the original sequence as
\* they were before the call.
C26_FailureChangesNothing ==
    [][ (FixStep /\ ~ret'.success) =>
            UNCHANGED <<current_geometries, applied_fixes, original_geometries>> ]_vars

\* a SNAP with no neighbour in tolerance was refused after an earlier fix had
\* changed the working sequence and the log
C26_Witness ==
    /\ ret.op = "apply_fix"
    /\ ~ret.success
    /\ ret.message.text = "No geometry found within snap tolerance"
    /\ applied_fixes # <<>>
    /\ current_geometries # original_geometries

C29_DensifyCoversLine ==
    \A error_id \in ErrorIds, params \in ParamMaps, shapely \in ShapelyVersions :
        (/\ NamesSlot(error_id, current_geometries)
         /\ current_geometries[FirstNumber(error_id) + 1].geom_type = "LineString"
         /\ ~is_empty(current_geometries[FirstNumber(error_id) + 1]))
        => LET i == FirstNumber(error_id) + 1
               g == current_geometries[i]
               out == apply_fix(Self, error_id, "DENSIFY", params, shapely)
               d == out.self.current_geometries[i]
           IN /\ out.ret.success
              /\ d.geom_type = "LineString"
              /\ Len(d.parts[1]) >= 2
              /\ d.parts[1][1] = g.parts[1][1]
              /\ Last(d.parts[1]) = Last(g.parts[1])

\* C30: when an upload request returns its findings, the dataset the store
\* holds is the one loaded from that request's file.
C30_FindingsOfStoredDataset ==
    ret.op = "geometry_qa" =>
        original_geometries = load_wkt_content(Self, ret.text).self.original_geometries

====
